---- MODULE Spec2Model ----
(***************************************************************************)
(* Model of lib/statsd.js: the StatsD client (Client), the Stat handle it  *)
(* hands out (Stat), the fan-out dispatcher Client.prototype.sendAll with  *)
(* its completion handler onSend, and Client.prototype.send, which makes   *)
(* the sampling decision, encodes the wire message and hands it to the     *)
(* UDP socket (or short-circuits on a mock client).                        *)
(*                                                                         *)
(* JavaScript values are tagged records.  Numbers are fixed-point with two *)
(* decimals: Num(25) is 0.25, Num(100) is 1, Num(4200) is 42.  Byte counts *)
(* and the completion counter are plain integers.                          *)
(***************************************************************************)
EXTENDS Integers, Sequences, FiniteSets, TLC

\* Longest name array a caller passes to a metric constructor.
MaxNames == 3

----------------------------------------------------------------------------
(* JavaScript values *)

Undefined == [t |-> "undefined"]
Null      == [t |-> "null"]
NaN       == [t |-> "NaN"]
Num(n)    == [t |-> "number", n |-> n]
Str(s)    == [t |-> "string", s |-> s]
Arr(a)    == [t |-> "array", a |-> a]
\* A method found on Stat.prototype (the handle has no own property yet).
Fn(name)  == [t |-> "function", s |-> name]
\* The Error object the socket reports for the i-th send of a batch.
Err(i)    == [t |-> "Error", of |-> i]

\* ToBoolean: what `x && ...` and `x || ...` test.
Truthy(v) ==
  CASE v.t = "undefined" -> FALSE
    [] v.t = "null"      -> FALSE
    [] v.t = "NaN"       -> FALSE
    [] v.t = "number"    -> v.n # 0
    [] v.t = "string"    -> v.s # ""
    [] v.t = "array"     -> TRUE
    [] v.t = "function"  -> TRUE
    [] v.t = "Error"     -> TRUE

IsArray(v) == v.t = "array"

\* Mutant of LessThanOne: x <= 1.
LessThanOneInclusive(v) ==
  CASE v.t = "number" -> v.n <= 100
    [] v.t = "null"   -> TRUE
    [] OTHER          -> FALSE

\* x < 1: the operand is converted with ToNumber; undefined and a function
\* convert to NaN, and every comparison with NaN is false.
LessThanOne(v) ==
  CASE v.t = "number" -> v.n < 100
    [] v.t = "null"   -> TRUE
    [] OTHER          -> FALSE

\* Unary minus: ToNumber, then negate.
Neg(v) ==
  CASE v.t = "number" -> Num(0 - v.n)
    [] v.t = "null"   -> Num(0)
    [] OTHER          -> NaN

\* a || b
Or(a, b) == IF Truthy(a) THEN a ELSE b

\* Number-to-string of a two-decimal fixed-point number: 25 -> "0.25",
\* 50 -> "0.5", 100 -> "1", -500 -> "-5", 0 -> "0".
NumStr(n) ==
  LET a    == IF n < 0 THEN 0 - n ELSE n
      ip   == a \div 100
      fp   == a % 100
      frac == IF fp = 0 THEN ""
              ELSE IF fp % 10 = 0 THEN "." \o ToString(fp \div 10)
              ELSE IF fp < 10 THEN ".0" \o ToString(fp)
              ELSE "." \o ToString(fp)
  IN (IF n < 0 THEN "-" ELSE "") \o ToString(ip) \o frac

RECURSIVE Join(_, _)
\* Array.prototype.join on an array of strings.
Join(a, sep) ==
  IF Len(a) = 0 THEN ""
  ELSE IF Len(a) = 1 THEN a[1]
  ELSE a[1] \o sep \o Join(Tail(a), sep)

\* ToString as applied by string concatenation ('' + v).
ToStr(v) ==
  CASE v.t = "undefined" -> "undefined"
    [] v.t = "null"      -> "null"
    [] v.t = "NaN"       -> "NaN"
    [] v.t = "number"    -> NumStr(v.n)
    [] v.t = "string"    -> v.s
    [] v.t = "array"     -> Join(v.a, ",")

----------------------------------------------------------------------------
(* State *)

VARIABLES
  client,   \* the Client: prefix, suffix, mock
  stat,     \* the Stat handle the caller holds, or NoStat
  batches,  \* one closure per sendAll invocation: its arguments and the
            \* variables completed, calledback, sentBytes
  sends,    \* per sendAll invocation, one record per Client.send call:
            \* the random draw, the fate of the message and, for a
            \* datagram handed to the socket, whether it has completed
  calls     \* per sendAll invocation, the invocations of the caller's
            \* callback, in order

vars == <<client, stat, batches, sends, calls>>

NoStat == [t |-> "none"]
\* Math.random() was not called for this send.
NoDraw == [t |-> "none"]

----------------------------------------------------------------------------
(* Stat: the handle returned by the metric constructors *)

\* new Stat(name, value, type, client).  sampleRate and tags are not own
\* properties yet: reading them finds the setters on Stat.prototype.
\* op and arg remember which constructor was called and with which value.
NewStat(name, value, type, op, arg) ==
  [name |-> name, value |-> value, type |-> type,
   sampleRate |-> Fn("sampleRate"), tags |-> Fn("tags"),
   op |-> op, arg |-> arg]

\* value || 1
IncrementValue(value) == Or(value, Num(100))

\* -value || -1
DecrementValue(value) == Or(Neg(value), Num(-100))

----------------------------------------------------------------------------
(* Client.prototype.send: sampling decision and wire encoding *)

\* sampleRate && sampleRate < 1
Sampled(sampleRate) == Truthy(sampleRate) /\ LessThanOne(sampleRate)

\* Mutant of Passes: Math.random() <= sampleRate.
PassesInclusive(draw, sampleRate) == draw <= sampleRate.n

\* Math.random() < sampleRate, draw being the value Math.random() returned
Passes(draw, sampleRate) == draw < sampleRate.n

\* this.prefix + stat + this.suffix + ':' + value + '|' + type
BaseMessage(cl, item, value, type) ==
  cl.prefix \o item \o cl.suffix \o ":" \o ToStr(value) \o "|" \o type

\* message += '|@' + sampleRate, on the sampled branch only
SampleSegment(sampleRate) ==
  IF Sampled(sampleRate) THEN "|@" \o ToStr(sampleRate) ELSE ""

\* if(tags && Array.isArray(tags)) message += '|#' + tags.join(',')
TagSegment(tags) ==
  IF Truthy(tags) /\ IsArray(tags) THEN "|#" \o Join(tags.a, ",") ELSE ""

\* Mutant of Message: the tags are appended before the sample rate.
MessageTagsFirst(cl, item, value, type, sampleRate, tags) ==
  BaseMessage(cl, item, value, type) \o TagSegment(tags)
    \o SampleSegment(sampleRate)

\* The message as built by the time it reaches the socket.
Message(cl, item, value, type, sampleRate, tags) ==
  BaseMessage(cl, item, value, type) \o SampleSegment(sampleRate)
    \o TagSegment(tags)

\* Mutant of SendFate: the mock flag is not consulted.
SendFateIgnoresMock(cl, sampleRate, draw) ==
  IF Sampled(sampleRate) /\ ~Passes(draw, sampleRate) THEN "dropped"
  ELSE "socket"

\* What one call of Client.prototype.send does with its message, given the
\* value Math.random() returns if it is asked: "dropped" (the early return),
\* "socket" (socket.send) or "mock" (the mock branch).
SendFate(cl, sampleRate, draw) ==
  IF Sampled(sampleRate) /\ ~Passes(draw, sampleRate) THEN "dropped"
  ELSE IF ~cl.mock THEN "socket"
  ELSE "mock"

\* The record of one Client.prototype.send call.  state is "pending" for a
\* datagram whose socket callback has not run yet.
ClientSend(cl, item, value, type, sampleRate, tags, draw) ==
  LET fate == SendFate(cl, sampleRate, draw) IN
  [item  |-> item,
   draw  |-> IF Sampled(sampleRate) THEN Num(draw) ELSE NoDraw,
   fate  |-> fate,
   msg   |-> IF fate = "dropped" THEN ""
             ELSE Message(cl, item, value, type, sampleRate, tags),
   state |-> IF fate = "socket" THEN "pending" ELSE "none"]

----------------------------------------------------------------------------
(* Client.prototype.sendAll and its completion handler onSend *)

\* The closure of one sendAll invocation.  callback is whether the caller's
\* callback is a function.
Closure(name, value, type, sampleRate, tags, callback) ==
  [stat |-> name, value |-> value, type |-> type,
   sampleRate |-> sampleRate, tags |-> tags, callback |-> callback,
   completed |-> 0, calledback |-> FALSE, sentBytes |-> 0]

\* Mutant of Silent: the type of the callback is not tested.
SilentOnlyLatch(c) == c.calledback

\* Mutant of Silent: the latch is not consulted.
SilentNoLatch(c) == ~c.callback

\* if(calledback || typeof callback !== 'function') return;
Silent(c) == c.calledback \/ ~c.callback

\* Mutant of AllCompleted: completed is compared before it is incremented.
AllCompletedOffByOne(c) == c.completed + 1 = Len(c.stat.a)

\* completed === stat.length
AllCompleted(c) == c.completed = Len(c.stat.a)

\* One invocation of a callback: callback(error) or callback(null, bytes).
ErrorCall(error)  == [error |-> error, bytes |-> <<>>]
ResultCall(bytes) == [error |-> Null, bytes |-> <<bytes>>]

\* Mutant of OnSend: the error branch does not set calledback.
OnSendNoLatchSet(c, error, bytes) ==
  LET c1 == [c EXCEPT !.completed = @ + 1] IN
  IF Silent(c1) THEN [closure |-> c1, calls |-> <<>>]
  ELSE IF Truthy(error)
  THEN [closure |-> c1, calls |-> <<ErrorCall(error)>>]
  ELSE LET c2 == [c1 EXCEPT !.sentBytes = @ + bytes] IN
       [closure |-> c2,
        calls   |-> IF AllCompleted(c2) THEN <<ResultCall(c2.sentBytes)>>
                    ELSE <<>>]

\* onSend(error, bytes) run in closure c: the closure afterwards and the
\* invocations of the caller's callback it makes.
OnSend(c, error, bytes) ==
  LET c1 == [c EXCEPT !.completed = @ + 1] IN
  IF Silent(c1) THEN [closure |-> c1, calls |-> <<>>]
  ELSE IF Truthy(error)
  THEN [closure |-> [c1 EXCEPT !.calledback = TRUE],
        calls   |-> <<ErrorCall(error)>>]
  ELSE LET c2 == [c1 EXCEPT !.sentBytes = @ + bytes] IN
       [closure |-> c2,
        calls   |-> IF AllCompleted(c2) THEN <<ResultCall(c2.sentBytes)>>
                    ELSE <<>>]

\* Mutant of ForEach: the loop is left after the first item.
ForEachFirstOnly(cl, acc, draws, i) ==
  IF Len(acc.closure.stat.a) = 0 THEN acc
  ELSE
    LET c == acc.closure
        s == ClientSend(cl, c.stat.a[1], c.value, c.type, c.sampleRate,
                        c.tags, draws[1])
        r == IF s.fate = "mock" THEN OnSend(c, Null, 0)
             ELSE [closure |-> c, calls |-> <<>>]
    IN [closure |-> r.closure, sends |-> <<s>>, calls |-> r.calls]

RECURSIVE ForEachCountsDropped(_, _, _, _)
\* Mutant of ForEach: a send dropped by sampling calls onSend(null, 0).
ForEachCountsDropped(cl, acc, draws, i) ==
  IF i > Len(acc.closure.stat.a) THEN acc
  ELSE
    LET c == acc.closure
        s == ClientSend(cl, c.stat.a[i], c.value, c.type, c.sampleRate,
                        c.tags, draws[i])
        r == IF s.fate \in {"mock", "dropped"} THEN OnSend(c, Null, 0)
             ELSE [closure |-> c, calls |-> <<>>]
    IN ForEachCountsDropped(cl,
               [closure |-> r.closure,
                sends   |-> Append(acc.sends, s),
                calls   |-> acc.calls \o r.calls],
               draws, i + 1)

RECURSIVE ForEachOneDraw(_, _, _, _)
\* Mutant of ForEach: one sampling draw decides for the whole array.
ForEachOneDraw(cl, acc, draws, i) ==
  IF i > Len(acc.closure.stat.a) THEN acc
  ELSE
    LET c == acc.closure
        s == ClientSend(cl, c.stat.a[i], c.value, c.type, c.sampleRate,
                        c.tags, draws[1])
        r == IF s.fate = "mock" THEN OnSend(c, Null, 0)
             ELSE [closure |-> c, calls |-> <<>>]
    IN ForEachOneDraw(cl,
               [closure |-> r.closure,
                sends   |-> Append(acc.sends, s),
                calls   |-> acc.calls \o r.calls],
               draws, i + 1)

RECURSIVE ForEach(_, _, _, _)
\* stat.forEach(function(item){ self.send(item, ..., onSend); }) from item i
\* on; acc holds the closure, the send records and the callback invocations
\* so far.  On a mock client send calls onSend(null, 0) before it returns.
ForEach(cl, acc, draws, i) ==
  IF i > Len(acc.closure.stat.a) THEN acc
  ELSE
    LET c == acc.closure
        s == ClientSend(cl, c.stat.a[i], c.value, c.type, c.sampleRate,
                        c.tags, draws[i])
        r == IF s.fate = "mock" THEN OnSend(c, Null, 0)
             ELSE [closure |-> c, calls |-> <<>>]
    IN ForEach(cl,
               [closure |-> r.closure,
                sends   |-> Append(acc.sends, s),
                calls   |-> acc.calls \o r.calls],
               draws, i + 1)

\* Mutant of SendAll: the single-name branch passes no callback to send.
SendAllSingleNoCallback(cl, name, value, type, sampleRate, tags, callback, draws) ==
  LET c == Closure(name, value, type, sampleRate, tags, callback) IN
  IF IsArray(name)
  THEN ForEach(cl, [closure |-> c, sends |-> <<>>, calls |-> <<>>], draws, 1)
  ELSE LET s == ClientSend(cl, name.s, value, type, sampleRate, tags,
                           draws[1])
       IN [closure |-> c, sends |-> <<s>>, calls |-> <<>>]

\* Mutant of SendAll: an empty array calls back (null, 0) at once.
SendAllEmptyCallsBack(cl, name, value, type, sampleRate, tags, callback, draws) ==
  LET c == Closure(name, value, type, sampleRate, tags, callback) IN
  IF IsArray(name)
  THEN IF Len(name.a) = 0 /\ callback
       THEN [closure |-> c, sends |-> <<>>, calls |-> <<ResultCall(0)>>]
       ELSE ForEach(cl, [closure |-> c, sends |-> <<>>, calls |-> <<>>],
                    draws, 1)
  ELSE LET s == ClientSend(cl, name.s, value, type, sampleRate, tags,
                           draws[1])
       IN [closure |-> c,
           sends   |-> <<s>>,
           calls   |-> IF s.fate = "mock" /\ callback
                       THEN <<ResultCall(0)>> ELSE <<>>]

\* sendAll(stat, value, type, sampleRate, tags, callback): up to the return
\* of sendAll.  draws[i] is what Math.random() returns in the i-th send.
SendAll(cl, name, value, type, sampleRate, tags, callback, draws) ==
  LET c == Closure(name, value, type, sampleRate, tags, callback) IN
  IF IsArray(name)
  THEN ForEach(cl, [closure |-> c, sends |-> <<>>, calls |-> <<>>], draws, 1)
  ELSE LET s == ClientSend(cl, name.s, value, type, sampleRate, tags,
                           draws[1])
       IN [closure |-> c,
           sends   |-> <<s>>,
           calls   |-> IF s.fate = "mock" /\ callback
                       THEN <<ResultCall(0)>> ELSE <<>>]

\* Number of Client.prototype.send calls one sendAll makes.
NumSends(name) == IF IsArray(name) THEN Len(name.a) ELSE 1

\* Mutant of SocketCallback: completed, calledback and sentBytes are shared
\* by all sendAll invocations (those of the first one are used).
SocketCallbackShared(b, i, error, call) ==
  /\ b \in 1..Len(batches)
  /\ i \in 1..Len(sends[b])
  /\ sends[b][i].state = "pending"
  /\ sends' = [sends EXCEPT ![b][i].state =
                 IF Truthy(error) THEN "err" ELSE "ok"]
  /\ IF IsArray(batches[b].stat)
     THEN LET shared == [batches[b] EXCEPT
                           !.completed  = batches[1].completed,
                           !.calledback = batches[1].calledback,
                           !.sentBytes  = batches[1].sentBytes]
              r == OnSend(shared, error,
                          IF Truthy(error) THEN 0 ELSE call.bytes[1])
          IN /\ batches' = [batches EXCEPT
                              ![1].completed  = r.closure.completed,
                              ![1].calledback = r.closure.calledback,
                              ![1].sentBytes  = r.closure.sentBytes]
             /\ calls' = [calls EXCEPT ![b] = @ \o r.calls]
     ELSE /\ batches' = batches
          /\ calls' = [calls EXCEPT ![b] =
                         IF batches[b].callback THEN Append(@, call) ELSE @]
  /\ UNCHANGED <<client, stat>>

\* The socket's callback for the i-th send of batch b runs with
\* (error, bytes): through onSend for an array, straight into the caller's
\* callback otherwise.
SocketCallback(b, i, error, call) ==
  /\ b \in 1..Len(batches)
  /\ i \in 1..Len(sends[b])
  /\ sends[b][i].state = "pending"
  /\ sends' = [sends EXCEPT ![b][i].state =
                 IF Truthy(error) THEN "err" ELSE "ok"]
  /\ IF IsArray(batches[b].stat)
     THEN LET r == OnSend(batches[b], error,
                          IF Truthy(error) THEN 0 ELSE call.bytes[1])
          IN /\ batches' = [batches EXCEPT ![b] = r.closure]
             /\ calls' = [calls EXCEPT ![b] = @ \o r.calls]
     ELSE /\ batches' = batches
          /\ calls' = [calls EXCEPT ![b] =
                         IF batches[b].callback THEN Append(@, call) ELSE @]
  /\ UNCHANGED <<client, stat>>

----------------------------------------------------------------------------
(* The callers: what they construct and pass in *)

AllNames == <<"a", "b", "c", "d", "e">>
NameArrays == {Arr(SubSeq(AllNames, 1, n)) : n \in 0..MaxNames}

\* Callers of the fan-out: few argument values, name arrays of every length
\* up to MaxNames, one send.  draws are the values Math.random() returns
\* (0 and 0.25).
Fan ==
  [prefixes |-> {""}, suffixes |-> {""},
   names    |-> {Str("x")} \cup NameArrays,
   values   |-> {Num(4200)},
   rates    |-> {Num(25), Num(100)},
   tags     |-> {Arr(<<"env:prod">>)},
   draws    |-> {0, 25},
   sends    |-> 1]

\* Callers with two sends in flight: timing stats on name arrays, no
\* sampling, two sends from one handle or from two.
Iso ==
  [prefixes |-> {""}, suffixes |-> {""},
   names    |-> NameArrays,
   values   |-> {Num(4200)},
   rates    |-> {},
   tags     |-> {},
   draws    |-> {0},
   sends    |-> 2]

\* Callers of the encoder: every kind of argument value, short names.
Enc ==
  [prefixes |-> {"", "app."}, suffixes |-> {"", ".s"},
   names    |-> {Str("x"), Arr(<<>>), Arr(<<"a", "b">>)},
   values   |-> {Undefined, Num(0), Num(500)},
   rates    |-> {Undefined, Num(0), Num(25), Num(50), Num(100), Num(150)},
   tags     |-> {Undefined, Str("env:prod"), Arr(<<>>), Arr(<<"env:prod">>),
                 Arr(<<"env:prod", "host:xyz">>)},
   draws    |-> {0, 25, 50},
   sends    |-> 1]

----------------------------------------------------------------------------
(* Actions *)

\* new Client(options): the state after construction.
InitClient(D) ==
  /\ client \in [prefix : D.prefixes, suffix : D.suffixes, mock : BOOLEAN]
  /\ stat = NoStat
  /\ batches = <<>>
  /\ sends = <<>>
  /\ calls = <<>>

\* The caller builds handles while it has a send left to make.
Building(D) == Len(batches) < D.sends

Timing(D) ==
  /\ Building(D)
  /\ \E name \in D.names, time \in D.values :
       stat' = NewStat(name, time, "ms", "timing", time)
  /\ UNCHANGED <<client, batches, sends, calls>>

Increment(D) ==
  /\ Building(D)
  /\ \E name \in D.names, value \in D.values :
       stat' = NewStat(name, IncrementValue(value), "c", "increment", value)
  /\ UNCHANGED <<client, batches, sends, calls>>

Decrement(D) ==
  /\ Building(D)
  /\ \E name \in D.names, value \in D.values :
       stat' = NewStat(name, DecrementValue(value), "c", "decrement", value)
  /\ UNCHANGED <<client, batches, sends, calls>>

Gauge(D) ==
  /\ Building(D)
  /\ \E name \in D.names, value \in D.values :
       stat' = NewStat(name, value, "g", "gauge", value)
  /\ UNCHANGED <<client, batches, sends, calls>>

Set(D) ==
  /\ Building(D)
  /\ \E name \in D.names, value \in D.values :
       stat' = NewStat(name, value, "s", "set", value)
  /\ UNCHANGED <<client, batches, sends, calls>>

Unique(D) ==
  /\ Building(D)
  /\ \E name \in D.names, value \in D.values :
       stat' = NewStat(name, value, "s", "unique", value)
  /\ UNCHANGED <<client, batches, sends, calls>>

Histogram(D) ==
  /\ Building(D)
  /\ \E name \in D.names, value \in D.values :
       stat' = NewStat(name, value, "h", "histogram", value)
  /\ UNCHANGED <<client, batches, sends, calls>>

\* Mutant of StatSampleRate: the rate is stored under another name, so the
\* setter stays callable.
StatSampleRateRepeatable(D) ==
  /\ Building(D)
  /\ stat # NoStat
  /\ \E rate \in D.rates : stat' = [stat EXCEPT !.sampleRate = rate]
  /\ UNCHANGED <<client, batches, sends, calls>>

\* stat.sampleRate(rate): callable while the handle's sampleRate is still
\* the prototype's method; the assignment puts the rate in its place.
StatSampleRate(D) ==
  /\ Building(D)
  /\ stat # NoStat
  /\ stat.sampleRate.t = "function"
  /\ \E rate \in D.rates : stat' = [stat EXCEPT !.sampleRate = rate]
  /\ UNCHANGED <<client, batches, sends, calls>>

\* stat.tags(tags)
StatTags(D) ==
  /\ Building(D)
  /\ stat # NoStat
  /\ stat.tags.t = "function"
  /\ \E tags \in D.tags : stat' = [stat EXCEPT !.tags = tags]
  /\ UNCHANGED <<client, batches, sends, calls>>

\* stat.send(callback): sendAll with the handle's fields, run to its return.
StatSend(D) ==
  /\ Building(D)
  /\ stat # NoStat
  /\ \E callback \in BOOLEAN,
        draws \in [1..NumSends(stat.name) -> D.draws] :
       LET r == SendAll(client, stat.name, stat.value, stat.type,
                        stat.sampleRate, stat.tags, callback, draws)
       IN /\ batches' = Append(batches, r.closure)
          /\ sends' = Append(sends, r.sends)
          /\ calls' = Append(calls, r.calls)
  /\ UNCHANGED <<client, stat>>

\* The socket reports a datagram sent: callback(null, bytes), bytes being
\* the length of the buffer.
SocketSendOk ==
  \E b \in 1..Len(batches) : \E i \in 1..Len(sends[b]) :
    SocketCallback(b, i, Null, ResultCall(Len(sends[b][i].msg)))

\* The socket reports a failure: callback(error).
SocketSendError ==
  \E b \in 1..Len(batches) : \E i \in 1..Len(sends[b]) :
    SocketCallback(b, i, Err(i), ErrorCall(Err(i)))

----------------------------------------------------------------------------
(* Specifications *)

Init == InitClient(Fan)

Next ==
  \/ Timing(Fan)
  \/ Increment(Fan)
  \/ Decrement(Fan)
  \/ Gauge(Fan)
  \/ Set(Fan)
  \/ Unique(Fan)
  \/ Histogram(Fan)
  \/ StatSampleRate(Fan)
  \/ StatTags(Fan)
  \/ StatSend(Fan)
  \/ SocketSendOk
  \/ SocketSendError

\* The fan-out: one name or an array of up to MaxNames names, sent once and
\* followed through every order and outcome of the socket's callbacks.
Spec == Init /\ [][Next]_vars

InitEnc == InitClient(Enc)

NextEnc ==
  \/ Timing(Enc)
  \/ Increment(Enc)
  \/ Decrement(Enc)
  \/ Gauge(Enc)
  \/ Set(Enc)
  \/ Unique(Enc)
  \/ Histogram(Enc)
  \/ StatSampleRate(Enc)
  \/ StatTags(Enc)
  \/ StatSend(Enc)
  \/ SocketSendOk
  \/ SocketSendError

\* The encoder: every constructor, argument value, sample rate and tag
\* list, on one name or a short array.
SpecEnc == InitEnc /\ [][NextEnc]_vars


InitIso == InitClient(Iso)

NextIso ==
  \/ Timing(Iso)
  \/ StatSend(Iso)
  \/ SocketSendOk
  \/ SocketSendError

\* Two sends in flight on one client, their socket callbacks interleaved in
\* every order.
SpecIso == InitIso /\ [][NextIso]_vars

----------------------------------------------------------------------------
(* Vocabulary of the properties *)

Batches == 1..Len(batches)

\* The sends of batch b that were handed to the socket.
SocketSends(b) == {i \in 1..Len(sends[b]) : sends[b][i].fate = "socket"}

\* The send has completed: the socket's callback has run, or the mock
\* branch has called back.
Completed(s) == s.state \in {"ok", "err"} \/ s.fate = "mock"

\* Bytes the transport reports for a send: the datagram's length, 0 on a
\* mock client.
Bytes(s) == IF s.fate = "socket" THEN Len(s.msg) ELSE 0

RECURSIVE SumBytes(_)
SumBytes(ss) == IF ss = <<>> THEN 0 ELSE Bytes(Head(ss)) + SumBytes(Tail(ss))

\* sampleRate absent (never set, or undefined) or >= 1.
NoSampling(rate) ==
  rate.t \in {"function", "undefined"} \/ (rate.t = "number" /\ rate.n >= 100)

\* A fan-out over N >= 1 names with a callback and no sampling.
IsFanOut(b) ==
  /\ batches[b].stat.t = "array"
  /\ Len(batches[b].stat.a) >= 1
  /\ batches[b].callback
  /\ NoSampling(batches[b].sampleRate)

NoneFailed(b) == \A i \in 1..Len(sends[b]) : sends[b][i].state # "err"
AllDone(b) == \A i \in 1..Len(sends[b]) : Completed(sends[b][i])

----------------------------------------------------------------------------
(* C1 *)

\* C1: in a fan-out over N >= 1 names with no sampling, as long as no send
\* has failed, the callback has been invoked at most once; it has been
\* invoked only if all N sends have completed, and then exactly once with
\* (null, total), total being the sum of the N byte counts.
FanOutSuccess ==
  \A b \in Batches :
    (IsFanOut(b) /\ NoneFailed(b)) =>
      /\ Len(sends[b]) = Len(batches[b].stat.a)
      /\ calls[b] # <<>> => AllDone(b)
      /\ AllDone(b) => calls[b] = <<ResultCall(SumBytes(sends[b]))>>

\* Three datagrams of 7 bytes each have all been sent: 21 bytes reported.
FanOutSuccessWitness ==
  \E b \in Batches :
    /\ IsFanOut(b) /\ NoneFailed(b) /\ AllDone(b)
    /\ Len(sends[b]) = 3
    /\ \A i \in 1..3 : sends[b][i].state = "ok"
    /\ calls[b] = <<ResultCall(21)>>

----------------------------------------------------------------------------
(* C2 *)

\* The scenario of C2 as far as it has run: names [a, b, c], the send for b
\* has not succeeded and the sends for a and c have not failed.
OnlyBFails(b) ==
  /\ IsFanOut(b)
  /\ Len(batches[b].stat.a) = 3
  /\ ~client.mock
  /\ sends[b][2].state # "ok"
  /\ sends[b][1].state # "err"
  /\ sends[b][3].state # "err"

\* C2: in a fan-out over [a, b, c] where b fails and a and c succeed, the
\* callback is never invoked with anything but b's error, never more than
\* once, and it has been invoked once b's send has failed.
ErrorLatching ==
  \A b \in Batches :
    OnlyBFails(b) =>
      /\ Len(calls[b]) <= 1
      /\ \A k \in 1..Len(calls[b]) : calls[b][k] = ErrorCall(Err(2))
      /\ sends[b][2].state = "err" => calls[b] = <<ErrorCall(Err(2))>>

\* b failed last: both successes were counted (14 bytes) before the error,
\* and all three completions have run.
ErrorLatchingWitness ==
  \E b \in Batches :
    /\ OnlyBFails(b) /\ AllDone(b)
    /\ sends[b][2].state = "err"
    /\ batches[b].sentBytes = 14
    /\ batches[b].completed = 3
    /\ calls[b] = <<ErrorCall(Err(2))>>

----------------------------------------------------------------------------
(* C10 *)

\* C10: a send on a non-mock client with no sampling and an array of N
\* names has handed exactly N datagrams to the socket, the i-th for the
\* i-th name, and this stays so whatever the outcomes of the sends;
\* timing(['a','b'], 42) emits 'a:42|ms' and 'b:42|ms'.
OneDatagramPerName ==
  \A b \in Batches :
    (/\ batches[b].stat.t = "array"
     /\ ~client.mock
     /\ NoSampling(batches[b].sampleRate)) =>
      /\ Len(sends[b]) = Len(batches[b].stat.a)
      /\ \A i \in 1..Len(sends[b]) :
           /\ sends[b][i].fate = "socket"
           /\ sends[b][i].item = batches[b].stat.a[i]
      /\ (/\ batches[b].stat.a = <<"a", "b">>
          /\ batches[b].type = "ms"
          /\ batches[b].value = Num(4200)
          /\ batches[b].tags.t = "function") =>
           /\ sends[b][1].msg = "a:42|ms"
           /\ sends[b][2].msg = "b:42|ms"

\* The first of three sends failed and the other two were dispatched all
\* the same and have succeeded.
OneDatagramPerNameWitness ==
  \E b \in Batches :
    /\ batches[b].stat.t = "array"
    /\ ~client.mock
    /\ NoSampling(batches[b].sampleRate)
    /\ Len(sends[b]) = 3
    /\ sends[b][1].state = "err"
    /\ sends[b][2].state = "ok"
    /\ sends[b][3].state = "ok"

----------------------------------------------------------------------------
(* Text of the expected datagrams *)

\* sub occurs in the string s.
Contains(s, sub) ==
  \E k \in 1..(Len(s) - Len(sub) + 1) : SubSeq(s, k, k + Len(sub) - 1) = sub

\* The type token of each constructor.
TypeToken(op) ==
  CASE op = "timing"    -> "ms"
    [] op = "increment" -> "c"
    [] op = "decrement" -> "c"
    [] op = "gauge"     -> "g"
    [] op = "set"       -> "s"
    [] op = "unique"    -> "s"
    [] op = "histogram" -> "h"

\* Decimal text of the numbers the callers use.
DecimalText(n) ==
  CASE n = 0    -> "0"
    [] n = 25   -> "0.25"
    [] n = 50   -> "0.5"
    [] n = 100  -> "1"
    [] n = -100 -> "-1"
    [] n = 150  -> "1.5"
    [] n = 500  -> "5"
    [] n = -500 -> "-5"
    [] n = 4200 -> "42"

ValueText(v) == IF v.t = "number" THEN DecimalText(v.n) ELSE "undefined"

\* The tag lists the callers use, joined by ','.
TagText(a) ==
  CASE a = <<>> -> ""
    [] a = <<"env:prod">> -> "env:prod"
    [] a = <<"env:prod", "host:xyz">> -> "env:prod,host:xyz"

\* 0 < sampleRate < 1
Fractional(rate) == rate.t = "number" /\ 0 < rate.n /\ rate.n < 100

NoneDropped(b) == \A i \in 1..Len(sends[b]) : sends[b][i].fate # "dropped"

----------------------------------------------------------------------------
(* C3 *)

\* C3 as stated: on a mock client every send with a callback invokes it
\* with (null, 0), and nothing reaches the socket.
MockAlwaysCallsBack ==
  \A b \in Batches :
    (client.mock /\ batches[b].callback) =>
      /\ calls[b] = <<ResultCall(0)>>
      /\ SocketSends(b) = {}

\* C3 amended: on a mock client nothing reaches the socket, and the
\* callback is invoked, once and with (null, 0), exactly when the send has
\* at least one name and sampling drops none of them.
MockMode ==
  \A b \in Batches :
    client.mock =>
      /\ SocketSends(b) = {}
      /\ calls[b] = IF /\ batches[b].callback
                       /\ Len(sends[b]) >= 1
                       /\ NoneDropped(b)
                    THEN <<ResultCall(0)>>
                    ELSE <<>>

\* A sampled, tagged fan-out over two names on a mock client, both names
\* passing the draw.
MockModeWitness ==
  \E b \in Batches :
    /\ client.mock
    /\ batches[b].callback
    /\ Fractional(batches[b].sampleRate)
    /\ batches[b].tags.t = "array"
    /\ Len(sends[b]) = 2
    /\ NoneDropped(b)
    /\ calls[b] = <<ResultCall(0)>>

----------------------------------------------------------------------------
(* C4 *)

\* C4: a send with sampleRate 0 is dropped whatever the draw: nothing is
\* emitted and the callback is not invoked.
SampleRateZeroDropped ==
  \A b \in Batches :
    (batches[b].sampleRate.t = "number" /\ batches[b].sampleRate.n = 0) =>
      /\ \A i \in 1..Len(sends[b]) : sends[b][i].fate = "dropped"
      /\ calls[b] = <<>>

----------------------------------------------------------------------------
(* C5 *)

\* C5: with sampleRate absent (never set on the handle, or undefined) or
\* >= 1, no send is dropped and no draw is made; on a non-mock client the
\* message goes to the socket, and it carries no '|@'.
NoSamplingAlwaysEmits ==
  \A b \in Batches :
    NoSampling(batches[b].sampleRate) =>
      \A i \in 1..Len(sends[b]) :
        /\ sends[b][i].fate # "dropped"
        /\ sends[b][i].draw = NoDraw
        /\ ~client.mock => sends[b][i].fate = "socket"
        /\ ~Contains(sends[b][i].msg, "|@")

\* A handle on which sampleRate() was never called has been sent and its
\* datagram delivered.
NoSamplingAlwaysEmitsWitness ==
  \E b \in Batches :
    /\ batches[b].sampleRate = Fn("sampleRate")
    /\ stat.sampleRate = Fn("sampleRate")
    /\ Len(sends[b]) = 1
    /\ sends[b][1].fate = "socket"
    /\ sends[b][1].state = "ok"

----------------------------------------------------------------------------
(* C6 *)

\* C6: with 0 < sampleRate < 1 and draw d, the message is emitted iff
\* d < sampleRate, and then carries '|@' followed by the rate; otherwise it
\* never reaches the socket and the callback given to send is never
\* invoked: the caller's callback for a single name, onSend (whose
\* invocations completed counts) for an array.
SamplingDecision ==
  \A b \in Batches :
    Fractional(batches[b].sampleRate) =>
      /\ \A i \in 1..Len(sends[b]) :
           LET s == sends[b][i] IN
           /\ s.draw.t = "number"
           /\ s.fate # "dropped" <=> s.draw.n < batches[b].sampleRate.n
           /\ s.fate # "dropped" =>
                Contains(s.msg, "|@" \o DecimalText(batches[b].sampleRate.n))
           /\ s.fate = "dropped" => (s.state = "none" /\ s.msg = "")
      /\ (batches[b].stat.t = "string" /\ ~NoneDropped(b)) => calls[b] = <<>>
      /\ batches[b].stat.t = "array" =>
           batches[b].completed =
             Cardinality({i \in 1..Len(sends[b]) : Completed(sends[b][i])})

\* Rate 0.25 on two names: the draw 0 let the first through and it was
\* delivered, the draw 0.25 dropped the second.
SamplingDecisionWitness ==
  \E b \in Batches :
    /\ batches[b].sampleRate = Num(25)
    /\ batches[b].callback
    /\ Len(sends[b]) = 2
    /\ sends[b][1].draw = Num(0)
    /\ sends[b][1].state = "ok"
    /\ sends[b][2].draw = Num(25)
    /\ sends[b][2].fate = "dropped"
    /\ batches[b].completed = 1
    /\ calls[b] = <<>>

----------------------------------------------------------------------------
(* C7 *)

\* C7: increment stores +1 without a value and v for a supplied number v;
\* decrement stores -1 without a value and -v for a supplied number v.
CounterValueDefaulting ==
  stat # NoStat =>
    /\ stat.op = "increment" =>
         stat.value = IF stat.arg.t = "undefined" THEN Num(100) ELSE stat.arg
    /\ stat.op = "decrement" =>
         stat.value = IF stat.arg.t = "undefined" THEN Num(-100)
                      ELSE Num(0 - stat.arg.n)

----------------------------------------------------------------------------
(* C8 *)

\* C8: an emitted message contains '|#' iff tags is a non-empty array, and
\* then ends with '|#' and the tags joined by ','.
TagSegmentIffNonEmpty ==
  \A b \in Batches : \A i \in 1..Len(sends[b]) :
    sends[b][i].fate # "dropped" =>
      LET tags == batches[b].tags
          msg  == sends[b][i].msg
          seg  == "|#" \o TagText(tags.a)
      IN IF tags.t = "array" /\ Len(tags.a) >= 1
         THEN /\ Len(msg) >= Len(seg)
              /\ SubSeq(msg, Len(msg) - Len(seg) + 1, Len(msg)) = seg
         ELSE ~Contains(msg, "|#")

----------------------------------------------------------------------------
(* C9 *)

\* The handle the batch was sent from: in SpecEnc the caller sends once and
\* the handle is not touched afterwards.
SentFromStat(b) ==
  /\ batches[b].stat = stat.name
  /\ batches[b].value = stat.value
  /\ batches[b].type = stat.type
  /\ batches[b].sampleRate = stat.sampleRate
  /\ batches[b].tags = stat.tags

\* C9: every datagram is prefix + name + suffix + ':' + value + '|' + type,
\* then the optional '|@' + sampleRate, then the optional '|#' + tags, a
\* segment whose field is absent being omitted; the type is the token of the
\* constructor; increment('x').tags(['env:prod']).send() with prefix 'app.'
\* emits the one datagram 'app.x:1|c|#env:prod'.
WireEncoding ==
  \A b \in Batches :
    /\ SentFromStat(b)
    /\ \A i \in SocketSends(b) :
         LET c    == batches[b]
             base == client.prefix \o sends[b][i].item \o client.suffix
                       \o ":" \o ValueText(c.value) \o "|" \o TypeToken(stat.op)
             S    == IF c.sampleRate.t = "number"
                     THEN {"", "|@" \o DecimalText(c.sampleRate.n)}
                     ELSE {""}
             G    == IF c.tags.t = "array"
                     THEN {"", "|#" \o TagText(c.tags.a)}
                     ELSE {""}
         IN sends[b][i].msg \in {base \o s \o g : s \in S, g \in G}
    /\ (/\ stat.op = "increment"
        /\ stat.arg = Undefined
        /\ stat.name = Str("x")
        /\ stat.sampleRate.t = "function"
        /\ stat.tags = Arr(<<"env:prod">>)
        /\ client.prefix = "app."
        /\ client.suffix = ""
        /\ ~client.mock) =>
         /\ Len(sends[b]) = 1
         /\ sends[b][1].fate = "socket"
         /\ sends[b][1].msg = "app.x:1|c|#env:prod"

\* A decrement with value 5, rate 0.5 and two tags, prefix and suffix set,
\* has put all three parts on the wire in order.
WireEncodingWitness ==
  \E b \in Batches :
    /\ stat.op = "decrement"
    /\ Len(sends[b]) = 1
    /\ sends[b][1].fate = "socket"
    /\ sends[b][1].msg = "app.x.s:-5|c|@0.5|#env:prod,host:xyz"

----------------------------------------------------------------------------
(* C11 *)

\* C11: for a single name sendAll makes one call of send and aggregates
\* nothing (completed, calledback and sentBytes stay untouched); the
\* caller's callback gets exactly what the transport reports, once: nothing
\* while the datagram is pending or when it was dropped, (null, bytes) on
\* success, (error) on failure, (null, 0) on a mock client.
SingleNamePassThrough ==
  \A b \in Batches :
    batches[b].stat.t = "string" =>
      /\ Len(sends[b]) = 1
      /\ sends[b][1].item = batches[b].stat.s
      /\ batches[b].completed = 0
      /\ ~batches[b].calledback
      /\ batches[b].sentBytes = 0
      /\ calls[b] =
           IF ~batches[b].callback THEN <<>>
           ELSE IF sends[b][1].fate = "mock"
             THEN <<[error |-> Null, bytes |-> <<0>>]>>
           ELSE IF sends[b][1].state = "ok"
             THEN <<[error |-> Null, bytes |-> <<Len(sends[b][1].msg)>>]>>
           ELSE IF sends[b][1].state = "err"
             THEN <<[error |-> Err(1), bytes |-> <<>>]>>
           ELSE <<>>

\* timing('x', 42).send(cb): the 7-byte datagram has been sent and cb has
\* been called with (null, 7).
SingleNamePassThroughWitness ==
  \E b \in Batches :
    /\ batches[b].stat = Str("x")
    /\ batches[b].callback
    /\ sends[b][1].msg = "x:42|ms"
    /\ sends[b][1].state = "ok"
    /\ calls[b] = <<[error |-> Null, bytes |-> <<7>>]>>

----------------------------------------------------------------------------
(* C12 *)

\* The callback of batch b has been invoked with an error.
Latched(b) == calls[b] # <<>> /\ calls[b][1].error # Null

\* C12: in a fan-out with a callback, the failure of a send while nothing
\* has been reported yet invokes the callback with that send's error and no
\* byte total; once an error has been reported no completion, success or
\* failure, invokes the callback again.
FirstErrorWinsStep ==
  \A b \in Batches :
    (batches[b].stat.t = "array" /\ batches[b].callback) =>
      /\ Latched(b) => calls'[b] = calls[b]
      /\ \A i \in 1..Len(sends[b]) :
           (/\ calls[b] = <<>>
            /\ sends[b][i].state = "pending"
            /\ sends'[b][i].state = "err") =>
             calls'[b] = <<[error |-> Err(i), bytes |-> <<>>]>>

FirstErrorWins == [][FirstErrorWinsStep]_vars

\* b succeeded (7 bytes counted), then c failed and was reported, then a
\* failed and was swallowed.
FirstErrorWinsWitness ==
  \E b \in Batches :
    /\ batches[b].stat.t = "array"
    /\ batches[b].callback
    /\ Len(sends[b]) = 3
    /\ sends[b][1].state = "err"
    /\ sends[b][2].state = "ok"
    /\ sends[b][3].state = "err"
    /\ batches[b].sentBytes = 7
    /\ calls[b] = <<[error |-> Err(3), bytes |-> <<>>]>>

----------------------------------------------------------------------------
(* C13 *)

\* C13: in a fan-out with 0 < sampleRate < 1 in which sampling dropped at
\* least one name, the callback is never invoked with a success, whatever
\* has completed; if a dispatched send has failed, the callback has been
\* invoked once, with an error.
SampledOutNeverCompletes ==
  \A b \in Batches :
    (/\ batches[b].stat.t = "array"
     /\ Fractional(batches[b].sampleRate)
     /\ ~NoneDropped(b)) =>
      /\ \A k \in 1..Len(calls[b]) : calls[b][k].error # Null
      /\ (batches[b].callback /\ ~NoneFailed(b)) =>
           (Len(calls[b]) = 1 /\ calls[b][1].bytes = <<>>)

\* Three names at rate 0.25: the second was dropped, the other two were
\* sent and have succeeded, and the callback has not been called.
SampledOutNeverCompletesWitness ==
  \E b \in Batches :
    /\ Fractional(batches[b].sampleRate)
    /\ batches[b].callback
    /\ Len(sends[b]) = 3
    /\ sends[b][1].state = "ok"
    /\ sends[b][2].fate = "dropped"
    /\ sends[b][3].state = "ok"
    /\ batches[b].completed = 2
    /\ calls[b] = <<>>

----------------------------------------------------------------------------
(* C14 *)

\* The names whose datagrams go to the socket when the handle is sent and
\* Math.random() returns draws[i] in the i-th send.
EmittedWith(draws) ==
  LET r == SendAll(client, stat.name, stat.value, stat.type,
                   stat.sampleRate, stat.tags, TRUE, draws)
  IN {i \in 1..Len(r.sends) : r.sends[i].fate = "socket"}

\* C14: when a handle with an array of N names and 0 < sampleRate < 1 is
\* about to be sent on a non-mock client, every subset of the N names is a
\* possible set of emitted datagrams of that one send: for each subset
\* there are draws with which exactly its names are emitted.
PerNameSampling ==
  (/\ stat # NoStat
   /\ Building(Fan)
   /\ ~client.mock
   /\ stat.name.t = "array"
   /\ Fractional(stat.sampleRate)) =>
    \A S \in SUBSET (1..Len(stat.name.a)) :
      \E draws \in [1..Len(stat.name.a) -> Fan.draws] :
        EmittedWith(draws) = S

\* One send emitted the first and the third of three names and dropped the
\* second.
PerNameSamplingWitness ==
  \E b \in Batches :
    /\ ~client.mock
    /\ Fractional(batches[b].sampleRate)
    /\ Len(sends[b]) = 3
    /\ sends[b][1].fate = "socket"
    /\ sends[b][2].fate = "dropped"
    /\ sends[b][3].fate = "socket"

----------------------------------------------------------------------------
(* C15 *)

\* C15: in a fan-out sent without a callback every name's send is made and
\* every completion is counted, but nothing is ever invoked and the latch
\* is never set, errors included.
NoCallbackSupplied ==
  \A b \in Batches :
    (batches[b].stat.t = "array" /\ ~batches[b].callback) =>
      /\ Len(sends[b]) = Len(batches[b].stat.a)
      /\ batches[b].completed =
           Cardinality({i \in 1..Len(sends[b]) : Completed(sends[b][i])})
      /\ ~batches[b].calledback
      /\ calls[b] = <<>>

\* Three names sent without a callback: one send failed, two succeeded, all
\* three were counted.
NoCallbackSuppliedWitness ==
  \E b \in Batches :
    /\ ~batches[b].callback
    /\ Len(sends[b]) = 3
    /\ sends[b][1].state = "ok"
    /\ sends[b][2].state = "err"
    /\ sends[b][3].state = "ok"
    /\ batches[b].completed = 3
    /\ calls[b] = <<>>

----------------------------------------------------------------------------
(* C16 *)

\* What the callback of batch b has been called with follows from the sends
\* of batch b alone.
OwnOutcome(b) ==
  /\ batches[b].completed =
       Cardinality({i \in 1..Len(sends[b]) : Completed(sends[b][i])})
  /\ batches[b].calledback = ~NoneFailed(b)
  /\ IF ~NoneFailed(b)
     THEN \E i \in 1..Len(sends[b]) :
            /\ sends[b][i].state = "err"
            /\ calls[b] = <<[error |-> Err(i), bytes |-> <<>>]>>
     ELSE IF AllDone(b) /\ Len(sends[b]) >= 1
     THEN calls[b] = <<[error |-> Null, bytes |-> <<SumBytes(sends[b])>>]>>
     ELSE calls[b] = <<>>

\* A step that completes a send of one batch leaves the other batches'
\* counters and callbacks alone.
OwnStep ==
  \A b \in Batches :
    sends'[b] = sends[b] => (batches'[b] = batches[b] /\ calls'[b] = calls[b])

\* C16: with two fan-out sends in flight, each callback is invoked
\* according to its own batch: its own byte total, or the error of one of
\* its own sends; a completion in one batch changes nothing in the other.
BatchIsolation ==
  /\ [](\A b \in Batches :
          (batches[b].stat.t = "array" /\ batches[b].callback) => OwnOutcome(b))
  /\ [][OwnStep]_vars

\* Two batches of two names in flight at once: the first has latched on an
\* error with one send pending, the second has counted one success (7
\* bytes) and waits for its other send.
BatchIsolationWitness ==
  /\ Len(batches) = 2
  /\ ~client.mock
  /\ batches[1].callback /\ batches[2].callback
  /\ Len(sends[1]) = 2 /\ Len(sends[2]) = 2
  /\ sends[1][1].state = "err" /\ sends[1][2].state = "pending"
  /\ sends[2][1].state = "pending" /\ sends[2][2].state = "ok"
  /\ batches[1].calledback /\ ~batches[2].calledback
  /\ batches[2].sentBytes = 7
  /\ calls[1] = <<[error |-> Err(1), bytes |-> <<>>]>>
  /\ calls[2] = <<>>

----------------------------------------------------------------------------
(* C17 *)

\* C17: once sampleRate(rate) has stored a rate on the handle, sampleRate
\* cannot be called on it again, while tags (if not yet called) still can;
\* the same for tags; and a send passes the stored values on.
SetterShadowing ==
  /\ (stat # NoStat /\ Building(Enc)) =>
       /\ stat.sampleRate.t # "function" =>
            /\ ~ENABLED StatSampleRate(Enc)
            /\ stat.tags.t = "function" => ENABLED StatTags(Enc)
       /\ stat.tags.t # "function" =>
            /\ ~ENABLED StatTags(Enc)
            /\ stat.sampleRate.t = "function" => ENABLED StatSampleRate(Enc)
  /\ \A b \in Batches :
       /\ batches[b].sampleRate = stat.sampleRate
       /\ batches[b].tags = stat.tags

\* sampleRate(0.25) and tags(['env:prod']) were both called and the handle
\* was sent with these values.
SetterShadowingWitness ==
  \E b \in Batches :
    /\ stat.sampleRate = Num(25)
    /\ stat.tags = Arr(<<"env:prod">>)
    /\ batches[b].sampleRate = Num(25)
    /\ batches[b].tags = Arr(<<"env:prod">>)
    /\ Len(sends[b]) = 1
    /\ sends[b][1].msg = "x:5|g|@0.25|#env:prod"

----------------------------------------------------------------------------
(* C18 *)

\* C18: the callback of a sendAll invocation has been invoked at most once.
AtMostOnce == \A b \in Batches : Len(calls[b]) <= 1

\* Every send of a three-name fan-out has completed, the first and the last
\* with an error, and the callback was called once.
AtMostOnceWitness ==
  \E b \in Batches :
    /\ batches[b].callback
    /\ Len(sends[b]) = 3
    /\ sends[b][1].state = "err"
    /\ sends[b][2].state = "ok"
    /\ sends[b][3].state = "err"
    /\ Len(calls[b]) = 1

----------------------------------------------------------------------------
(* C19 *)

\* C19: a send on an empty array of names makes no call of send and never
\* invokes the callback, on a mock client or not.
EmptyFanOut ==
  \A b \in Batches :
    batches[b].stat = Arr(<<>>) =>
      /\ sends[b] = <<>>
      /\ calls[b] = <<>>
      /\ batches[b].completed = 0

\* An empty array was sent with a callback on a mock client.
EmptyFanOutWitness ==
  \E b \in Batches :
    /\ client.mock
    /\ batches[b].stat = Arr(<<>>)
    /\ batches[b].callback
    /\ calls[b] = <<>>

====
